---- MODULE Spec2Model ----
(***************************************************************************)
(* Model of src/expt/cmatrix.cpp: the terminal "digital rain" animation.   *)
(* The state is the Matrix object (grid, per-column drop state), the       *)
(* position of main()/run() in its control flow, and the part of the       *)
(* terminal the program touches (cursor, input mode, pending key, output). *)
(* Rows and columns are 0-based as in the source.                          *)
(***************************************************************************)
EXTENDS Integers, Sequences, FiniteSets, TLC

VARIABLES
    pc,           \* position in main()/run(): see PcValues
    ioctlOk,      \* whether ioctl(TIOCGWINSZ) succeeds (stdout is a terminal)
    width,        \* Matrix::width
    height,       \* Matrix::height
    screen,       \* Matrix::screen      [row -> [col -> byte]]
    brightness,   \* Matrix::brightness  [row -> [col -> int]]
    drops,        \* Matrix::drops       [col -> headRow]
    speeds,       \* Matrix::speeds      [col -> speed]
    lengths,      \* Matrix::lengths     [col -> trailLength]
    counters,     \* Matrix::counters    [col -> tickCounter]
    col,          \* loop variable of update()'s column loop (line 174)
    cursorHidden, \* terminal: cursor hidden by "\033[?25l"
    termMode,     \* terminal: c_lflag bits of stdin among {"ICANON", "ECHO"}
    nonblock,     \* stdin has O_NONBLOCK set
    oldt,         \* kbhit()'s local oldt: the c_lflag bits it saved
    oldf,         \* kbhit()'s local oldf: the O_NONBLOCK flag it saved
    ttyQueue,     \* keys typed and not yet read from the terminal
    stdioBuf,     \* characters held in stdin's stdio buffer (ungetc)
    echoed,       \* a typed key was echoed by the terminal
    frame,        \* bytes written to stdout by the last render()
    out,          \* the output operations run() has issued, in program order (not
                  \* the order stdio buffering delivers them in); the frames of
                  \* consecutive render() calls are one "frame" entry
    unpainted,    \* history: update() calls begun minus render() calls made
    diag,         \* a diagnostic was written to std::cerr
    exitCode,     \* process exit status, -1 while running
    accessed,     \* <<row, col>> indices used on screen/brightness by the last step
    elapsed,      \* history: update() calls seen by each column since its last advance
    lastStep      \* history: what the last column step did: "none", "rest", "move", "respawn"

vars == <<pc, ioctlOk, width, height, screen, brightness, drops, speeds, lengths,
          counters, col, cursorHidden, termMode, nonblock, oldt, oldf, ttyQueue,
          stdioBuf, echoed, frame, out, unpainted, diag, exitCode, accessed, elapsed,
          lastStep>>

----------------------------------------------------------------------------
(* Bounds of the model *)

\* tallest terminal explored
MaxHeight == 3
\* largest spawn delay drawn (spawn_dist itself reaches SpawnDistMax)
MaxSpawn == 1
\* char_dist draws are the indices that are multiples of CharStep
CharStep == 138
\* widest and tallest grid whose frames are explored (SpecRender)
MaxRenderWidth == 2
MaxRenderHeight == 2

(* Program constants *)

MaxBrightness == 10
FadeStep == 3
SpeedMin == 1
SpeedMax == 4
LengthMin == 7
LengthMax == 10
SpawnDistMax == 50
Blank == 32

Max(a, b) == IF a > b THEN a ELSE b

\* the bytes of the string literal matrix_chars (UTF-8 source encoding)
matrix_chars ==
    << 227, 130, 162, 227, 130, 164, 227, 130, 166, 227, 130, 168,
       227, 130, 170, 227, 130, 171, 227, 130, 173, 227, 130, 175,
       227, 130, 177, 227, 130, 179, 227, 130, 181, 227, 130, 183,
       227, 130, 185, 227, 130, 187, 227, 130, 189, 227, 130, 191,
       227, 131, 129, 227, 131, 132, 227, 131, 134, 227, 131, 136,
       227, 131, 138, 227, 131, 139, 227, 131, 140, 227, 131, 141,
       227, 131, 142, 227, 131, 143, 227, 131, 146, 227, 131, 149,
       227, 131, 152, 227, 131, 155, 227, 131, 158, 227, 131, 159,
       227, 131, 160, 227, 131, 161, 227, 131, 162, 227, 131, 164,
       227, 131, 166, 227, 131, 168, 227, 131, 169, 227, 131, 170,
       227, 131, 171, 227, 131, 172, 227, 131, 173, 227, 131, 175,
       227, 131, 178, 227, 131, 179, 48, 49, 50, 51, 52, 53,
       54, 55, 56, 57, 33, 64, 35, 36, 37, 94, 38, 42,
       40, 41 >>

\* matrix_chars[i] with the 0-based index of std::string::operator[]
CharAt(i) == matrix_chars[i + 1]

\* values char_dist(rng) can return: 0 .. matrix_chars.length() - 1, sampled
CharDraws == {i \in 0..(Len(matrix_chars) - 1) : i % CharStep = 0}
\* values speed_dist(rng) can return
SpeedDraws == SpeedMin..SpeedMax
\* values length_dist(rng) can return
LengthDraws == LengthMin..LengthMax
\* values spawn_dist(rng) can return, cut at MaxSpawn
SpawnDraws == {s \in 0..SpawnDistMax : s <= MaxSpawn}

\* terminal sizes explored: ws_col in Widths, ws_row in Heights
Widths == {0, 1}
Heights == 0..MaxHeight

\* c_lflag of a terminal in its usual (cooked) mode, restricted to the two
\* bits kbhit() touches
CookedMode == {"ICANON", "ECHO"}

Rows == 0..(height - 1)
Cols == 0..(width - 1)

PcValues == {"main", "run", "kbhit", "getchar", "fade", "advance", "render",
             "sleep", "teardown", "caught", "done"}

\* positions between the first kbhit() and the end of the while loop
LoopPcs == {"kbhit", "getchar", "fade", "advance", "render", "sleep"}

----------------------------------------------------------------------------
(* Matrix::update, fade pass (lines 160-171) *)

\* FadeBrightness without the clamp of lines 165-166
FadeBrightnessNoClamp(b) == IF b > 0 THEN b - FadeStep ELSE b

\* brightness of a cell after the fade pass
FadeBrightness(b) ==
    IF b > 0
    THEN (IF b - FadeStep <= 0 THEN 0 ELSE b - FadeStep)
    ELSE b

\* FadeGlyph that never clears the glyph (line 167 left out)
FadeGlyphKeep(g, b) == g

\* FadeGlyph with < for the <= of line 165
FadeGlyphStrict(g, b) ==
    IF b > 0 /\ b - FadeStep < 0 THEN Blank ELSE g

\* glyph of a cell after the fade pass
FadeGlyph(g, b) ==
    IF b > 0 /\ b - FadeStep <= 0 THEN Blank ELSE g

(* Matrix::update, per-column advance (lines 174-206) *)

\* ShouldAdvance with > for >=
ShouldAdvanceLate(counter, speed) == counter > speed

\* line 178, evaluated on the incremented counter
ShouldAdvance(counter, speed) == counter >= speed

\* line 183
HeadInGrid(h, ht) == h >= 0 /\ h < ht

\* TailInGrid without the test against row 0
TailInGridNoFloor(t, ht) == t < ht

\* line 191
TailInGrid(t, ht) == t >= 0 /\ t < ht

\* TailNeedsWrite true of dark cells only
TailNeedsWriteDark(b, i) == b = 0

\* line 192
TailNeedsWrite(b, i) == b < (MaxBrightness - i)

\* TailBrightness stepping down by the fade step instead of by one
TailBrightnessSteep(i) == Max(1, MaxBrightness - FadeStep * i)

\* line 194
TailBrightness(i) == Max(1, MaxBrightness - i)

\* ShouldRespawn with >= for >
ShouldRespawnAtEdge(h, len, ht) == h - len >= ht

\* ShouldRespawn with the trail length added instead of subtracted
ShouldRespawnEarly(h, len, ht) == h + len > ht

\* line 200, evaluated on the incremented head row
ShouldRespawn(h, len, ht) == h - len > ht

\* SpawnRow without the trail length
SpawnRowNoLength(spawn, len) == 0 - spawn

\* line 201 (and line 70 with a fresh length draw)
SpawnRow(spawn, len) == (0 - spawn) - len

\* offsets i visited by the tail loop of line 189
TailOffsets(len) == 1..(len - 1)

\* the cell <<r, c>> is the target of the head write of a drop whose head is h
IsHeadWrite(r, h, ht) == r = h /\ HeadInGrid(h, ht)

\* the cell at row r is the target of a tail write of a drop whose head is h
IsTailWrite(r, h, len, ht, b) ==
    /\ (h - r) \in TailOffsets(len)
    /\ TailInGrid(r, ht)
    /\ TailNeedsWrite(b, h - r)

\* brightness of row r of the column after the drawing of lines 182-197
DrawnBrightness(r, h, len, ht, b) ==
    IF IsHeadWrite(r, h, ht) THEN MaxBrightness
    ELSE IF IsTailWrite(r, h, len, ht, b) THEN TailBrightness(h - r)
    ELSE b

\* glyph of row r of the column after the drawing of lines 182-197; ch is the
\* index char_dist(rng) returned for this cell
DrawnGlyph(r, h, len, ht, b, g, ch) ==
    IF IsHeadWrite(r, h, ht) \/ IsTailWrite(r, h, len, ht, b)
    THEN CharAt(ch)
    ELSE g

\* indices used on the buffers by the drawing of lines 182-197 for column c
DrawAccesses(c, h, len, ht) ==
    {<<h, c>> : x \in {y \in {h} : HeadInGrid(y, ht)}}
    \cup {<<h - i, c>> : i \in {j \in TailOffsets(len) : TailInGrid(h - j, ht)}}

(* Matrix::render (lines 209-232) and the ANSI sequences it emits *)

CursorHome == <<27, 91, 72>>
BrightGreen == <<27, 91, 57, 50, 109>>
DimGreen == <<27, 91, 51, 50, 109>>
ResetSeq == <<27, 91, 48, 109>>
Newline == 10
BrightThreshold == 5

\* setGreenText with >= for the > of line 115
setGreenTextInclusive(level) == IF level >= BrightThreshold THEN BrightGreen ELSE DimGreen

\* Matrix::setGreenText (lines 115-119)
setGreenText(level) == IF level > BrightThreshold THEN BrightGreen ELSE DimGreen

\* Matrix::resetColor (line 127)
resetColor == ResetSeq

\* lines 221-227: the bytes written for one cell
RenderCell(g, b) ==
    IF g # Blank /\ b > 0
    THEN setGreenText(b) \o <<g>> \o resetColor
    ELSE <<Blank>>

\* RowSeparator emitted after the last row too
RowSeparatorEveryRow(row, ht) == IF row < ht THEN <<Newline>> ELSE << >>

\* line 229
RowSeparator(row, ht) == IF row < ht - 1 THEN <<Newline>> ELSE << >>

RECURSIVE RenderCols(_, _, _, _, _)
\* lines 220-228: columns c .. w-1 of one row
RenderCols(scr, bri, row, c, w) ==
    IF c >= w THEN << >>
    ELSE RenderCell(scr[row][c], bri[row][c]) \o RenderCols(scr, bri, row, c + 1, w)

RECURSIVE RenderRows(_, _, _, _, _)
\* lines 219-230: rows row .. ht-1
RenderRows(scr, bri, row, w, ht) ==
    IF row >= ht THEN << >>
    ELSE RenderCols(scr, bri, row, 0, w) \o RowSeparator(row, ht)
         \o RenderRows(scr, bri, row + 1, w, ht)

\* the bytes of one render() call
RenderOut(scr, bri, w, ht) == CursorHome \o RenderRows(scr, bri, 0, w, ht)

----------------------------------------------------------------------------
(* Initial state: main() entered, nothing constructed; the terminal is in  *)
(* cooked mode with a visible cursor.                                      *)

Init ==
    /\ pc = "main"
    /\ ioctlOk \in BOOLEAN
    /\ width = 0
    /\ height = 0
    /\ screen = << >>
    /\ brightness = << >>
    /\ drops = << >>
    /\ speeds = << >>
    /\ lengths = << >>
    /\ counters = << >>
    /\ col = 0
    /\ cursorHidden = FALSE
    /\ termMode = CookedMode
    /\ nonblock = FALSE
    /\ oldt = {}
    /\ oldf = FALSE
    /\ ttyQueue = 0
    /\ stdioBuf = 0
    /\ echoed = FALSE
    /\ frame = << >>
    /\ out = << >>
    /\ unpainted = 0
    /\ diag = FALSE
    /\ exitCode = -1
    /\ accessed = {}
    /\ elapsed = << >>
    /\ lastStep = "none"

termVars == <<cursorHidden, termMode, nonblock, oldt, oldf, ttyQueue, stdioBuf, echoed>>
gridVars == <<screen, brightness>>
dropVars == <<drops, speeds, lengths, counters>>
sizeVars == <<ioctlOk, width, height>>
logVars == <<out, unpainted>>

(* Matrix::Matrix (lines 36-39): getTerminalSize() then initializeMatrix().  *)
(* ioctl's result is not tested: when it fails, w is uninitialized and      *)
(* width/height are whatever the stack held, here any explored size.        *)
Construct ==
    /\ pc = "main"
    /\ \E w \in Widths, h \in Heights :
         /\ width' = w
         /\ height' = h
         /\ screen' = [r \in 0..(h - 1) |-> [c \in 0..(w - 1) |-> Blank]]
         /\ brightness' = [r \in 0..(h - 1) |-> [c \in 0..(w - 1) |-> 0]]
         /\ \E sp \in [0..(w - 1) -> SpawnDraws],
               l1 \in [0..(w - 1) -> LengthDraws],
               sd \in [0..(w - 1) -> SpeedDraws],
               l2 \in [0..(w - 1) -> LengthDraws] :
              /\ drops' = [c \in 0..(w - 1) |-> SpawnRow(sp[c], l1[c])]
              /\ speeds' = sd
              /\ lengths' = l2
         /\ counters' = [c \in 0..(w - 1) |-> 0]
         /\ elapsed' = [c \in 0..(w - 1) |-> 0]
    /\ pc' = "run"
    /\ UNCHANGED <<ioctlOk, col, termVars, frame, diag, exitCode, accessed, lastStep>>
    /\ UNCHANGED logVars

(* Matrix::Matrix when the uninitialized winsize holds a size whose buffers *)
(* cannot be allocated: resize() throws and main's handler is entered.      *)
ConstructThrows ==
    /\ pc = "main"
    /\ ~ioctlOk
    /\ pc' = "caught"
    /\ UNCHANGED <<sizeVars, gridVars, dropVars, col, termVars, frame, diag,
                   exitCode, accessed, elapsed, lastStep>>
    /\ UNCHANGED logVars

(* main, lines 266-268 *)
Catch ==
    /\ pc = "caught"
    /\ diag' = TRUE
    /\ exitCode' = 1
    /\ pc' = "done"
    /\ UNCHANGED <<sizeVars, gridVars, dropVars, col, termVars, frame, accessed,
                   elapsed, lastStep>>
    /\ UNCHANGED logVars

\* what run() writes before the loop (lines 243-246): screen cleared,
\* cursor hidden, the banner "Matrix Digital Rain - Press any key to exit"
StartupOutput == <<"clear", "hide", "banner">>

\* ShutdownOutput with the banner printed before the screen is cleared
ShutdownOutputBannerFirst == <<"show", "reset", "bye", "clear">>

\* what run() writes after the loop (lines 255-258): cursor shown, colour
\* reset, screen cleared, the banner "Matrix effect terminated."
ShutdownOutput == <<"show", "reset", "clear", "bye">>

\* the output log after one more render() (lines 215-231)
AppendFrame(o) ==
    IF Len(o) > 0 /\ o[Len(o)] = "frame" THEN o ELSE Append(o, "frame")

\* Matrix::hideCursor (line 92): the cursor is hidden afterwards
hideCursor == TRUE

\* Matrix::showCursor (line 103): the cursor is not hidden afterwards
showCursor == FALSE

(* Matrix::run, lines 243-247: clearScreen, hideCursor, banner, 2 s sleep *)
RunStart ==
    /\ pc = "run"
    /\ cursorHidden' = hideCursor
    /\ frame' = << >>
    /\ pc' = "kbhit"
    /\ UNCHANGED <<sizeVars, gridVars, dropVars, col, termMode, nonblock, oldt, oldf,
                   ttyQueue, stdioBuf, echoed, diag, exitCode, accessed, elapsed, lastStep>>
    /\ out' = StartupOutput
    /\ UNCHANGED unpainted

\* line 141: newt.c_lflag &= ~(ICANON | ECHO)
RawMode(lflag) == lflag \ {"ICANON", "ECHO"}

\* RestoredMode putting back newt instead of oldt
RestoredModeRaw(saved) == RawMode(saved)

\* line 148: the mode tcsetattr() puts back, given the saved oldt
RestoredMode(saved) == saved

(* Matrix::kbhit, lines 139-144: raw, non-blocking input *)
KbhitEnter ==
    /\ pc = "kbhit"
    /\ oldt' = termMode
    /\ termMode' = RawMode(termMode)
    /\ oldf' = nonblock
    /\ nonblock' = TRUE
    /\ pc' = "getchar"
    /\ UNCHANGED <<sizeVars, gridVars, dropVars, col, cursorHidden, ttyQueue, stdioBuf,
                   echoed, frame, diag, exitCode, accessed, elapsed, lastStep>>
    /\ UNCHANGED logVars

(* Matrix::kbhit, lines 146-155, and the loop test of line 249: getchar(),  *)
(* the mode put back, ungetc() of a character that was read.                *)
KbhitRead ==
    /\ pc = "getchar"
    /\ termMode' = RestoredMode(oldt)
    /\ nonblock' = oldf
    /\ UNCHANGED <<oldt, oldf>>
    /\ IF stdioBuf > 0 \/ ttyQueue > 0
       THEN /\ ttyQueue' = IF stdioBuf > 0 THEN ttyQueue ELSE ttyQueue - 1
            /\ stdioBuf' = IF stdioBuf > 0 THEN stdioBuf ELSE stdioBuf + 1
            /\ pc' = "teardown"
       ELSE /\ UNCHANGED <<ttyQueue, stdioBuf>>
            /\ pc' = "fade"
    /\ UNCHANGED <<sizeVars, gridVars, dropVars, col, cursorHidden, echoed, frame,
                   diag, exitCode, accessed, elapsed, lastStep>>
    /\ UNCHANGED logVars

(* Matrix::update, lines 160-171: the fade pass; then the column loop starts *)
Fade ==
    /\ pc = "fade"
    /\ brightness' = [r \in Rows |-> [c \in Cols |-> FadeBrightness(brightness[r][c])]]
    /\ screen' = [r \in Rows |-> [c \in Cols |-> FadeGlyph(screen[r][c], brightness[r][c])]]
    /\ accessed' = {<<r, c>> : r \in Rows, c \in Cols}
    /\ col' = 0
    /\ lastStep' = "none"
    /\ pc' = IF 0 < width THEN "advance" ELSE "render"
    /\ UNCHANGED <<sizeVars, dropVars, termVars, frame, diag, exitCode, elapsed>>
    /\ unpainted' = unpainted + 1
    /\ UNCHANGED out

\* AfterColumn leaving update() for the sleep, the frame not painted
AfterColumnNoPaint(c) == IF c + 1 < width THEN "advance" ELSE "sleep"

\* the column loop's next position after column c (line 174)
AfterColumn(c) == IF c + 1 < width THEN "advance" ELSE "render"

(* Matrix::update, lines 175-205 for column col when the drop rests *)
Rest ==
    /\ pc = "advance"
    /\ ~ShouldAdvance(counters[col] + 1, speeds[col])
    /\ counters' = [counters EXCEPT ![col] = counters[col] + 1]
    /\ elapsed' = [elapsed EXCEPT ![col] = elapsed[col] + 1]
    /\ accessed' = {}
    /\ lastStep' = "rest"
    /\ pc' = AfterColumn(col)
    /\ col' = col + 1
    /\ UNCHANGED <<sizeVars, gridVars, drops, speeds, lengths, termVars, frame, diag,
                   exitCode>>
    /\ UNCHANGED logVars

(* Matrix::update, lines 175-205 for column col when the drop advances *)
Advance ==
    /\ pc = "advance"
    /\ ShouldAdvance(counters[col] + 1, speeds[col])
    /\ LET h == drops[col] + 1
           len == lengths[col]
       IN /\ \E ch \in [Rows -> CharDraws] :
               /\ brightness' = [r \in Rows |->
                     [brightness[r] EXCEPT ![col] =
                         DrawnBrightness(r, h, len, height, brightness[r][col])]]
               /\ screen' = [r \in Rows |->
                     [screen[r] EXCEPT ![col] =
                         DrawnGlyph(r, h, len, height, brightness[r][col],
                                    screen[r][col], ch[r])]]
          /\ accessed' = DrawAccesses(col, h, len, height)
          /\ IF ShouldRespawn(h, len, height)
             THEN /\ \E sp \in SpawnDraws, sd \in SpeedDraws, ln \in LengthDraws :
                       /\ drops' = [drops EXCEPT ![col] = SpawnRow(sp, len)]
                       /\ speeds' = [speeds EXCEPT ![col] = sd]
                       /\ lengths' = [lengths EXCEPT ![col] = ln]
                  /\ lastStep' = "respawn"
             ELSE /\ drops' = [drops EXCEPT ![col] = h]
                  /\ UNCHANGED <<speeds, lengths>>
                  /\ lastStep' = "move"
    /\ counters' = [counters EXCEPT ![col] = 0]
    /\ elapsed' = [elapsed EXCEPT ![col] = 0]
    /\ pc' = AfterColumn(col)
    /\ col' = col + 1
    /\ UNCHANGED <<sizeVars, termVars, frame, diag, exitCode>>
    /\ UNCHANGED logVars

(* Matrix::render, lines 209-232 *)
Render ==
    /\ pc = "render"
    /\ frame' = RenderOut(screen, brightness, width, height)
    /\ accessed' = {<<r, c>> : r \in Rows, c \in Cols}
    /\ pc' = "sleep"
    /\ UNCHANGED <<sizeVars, gridVars, dropVars, col, termVars, diag, exitCode,
                   elapsed, lastStep>>
    /\ out' = AppendFrame(out)
    /\ unpainted' = unpainted - 1

(* Matrix::run, line 252: sleep_ms(8) *)
Sleep ==
    /\ pc = "sleep"
    /\ pc' = "kbhit"
    /\ UNCHANGED <<sizeVars, gridVars, dropVars, col, termVars, frame, diag, exitCode,
                   accessed, elapsed, lastStep>>
    /\ UNCHANGED logVars

(* Matrix::run, lines 255-258, and main's return 0 *)
Teardown ==
    /\ pc = "teardown"
    /\ cursorHidden' = showCursor
    /\ frame' = << >>
    /\ exitCode' = 0
    /\ pc' = "done"
    /\ UNCHANGED <<sizeVars, gridVars, dropVars, col, termMode, nonblock, oldt, oldf,
                   ttyQueue, stdioBuf, echoed, diag, accessed, elapsed, lastStep>>
    /\ out' = out \o ShutdownOutput
    /\ UNCHANGED unpainted

(* The user presses a key while the program waits for one (once). The      *)
(* terminal echoes it when ECHO is set at that moment.                     *)
KeyPress ==
    /\ pc \in LoopPcs
    /\ ttyQueue = 0 /\ stdioBuf = 0
    /\ ttyQueue' = 1
    /\ echoed' = ("ECHO" \in termMode)
    /\ UNCHANGED <<pc, sizeVars, gridVars, dropVars, col, cursorHidden, termMode,
                   nonblock, oldt, oldf, stdioBuf, frame, diag, exitCode, accessed, elapsed,
                   lastStep>>
    /\ UNCHANGED logVars

\* the steps of the program itself
ProgramStep ==
    \/ Construct
    \/ ConstructThrows
    \/ Catch
    \/ RunStart
    \/ KbhitEnter
    \/ KbhitRead
    \/ Fade
    \/ Rest
    \/ Advance
    \/ Render
    \/ Sleep
    \/ Teardown

Next ==
    \/ ProgramStep
    \/ KeyPress

Spec == Init /\ [][Next]_vars

\* the single thread of main() is never suspended for ever: while it has a
\* step to take it takes one (the sleeps of lines 247 and 252 are finite)
SpecLive == Init /\ [][Next]_vars /\ WF_vars(ProgramStep)

----------------------------------------------------------------------------
(* Frames of grids with several columns. The grids drawn are those update() *)
(* leaves behind: a column whose drop last advanced to head row d holds the *)
(* gradient MaxBrightness - i at row d - i (lines 185 and 194), faded once  *)
(* for each tick the drop has rested since (lines 163-168).                 *)

RECURSIVE FadeTimes(_, _)
\* brightness b after k fade passes
FadeTimes(b, k) == IF k = 0 THEN b ELSE FadeTimes(FadeBrightness(b), k - 1)

\* brightness at row r of a column whose drop of length len has just advanced to d
TrailBrightness(r, d, len, ht) ==
    DrawnBrightness(r, d, len, ht, 0)

InitRender ==
    /\ pc = "render"
    /\ ioctlOk = TRUE
    /\ width \in 0..MaxRenderWidth
    /\ height \in 0..MaxRenderHeight
    /\ \E d \in [Cols -> (0 - 1)..height], k \in [Cols -> 0..(SpeedMax - 1)],
          ch \in [Cols -> CharDraws] :
         /\ drops = d
         /\ counters = k
         /\ elapsed = k
         /\ brightness = [r \in Rows |-> [c \in Cols |->
                             FadeTimes(TrailBrightness(r, d[c], LengthMax, height), k[c])]]
         /\ screen = [r \in Rows |-> [c \in Cols |->
                             IF FadeTimes(TrailBrightness(r, d[c], LengthMax, height), k[c]) > 0
                             THEN CharAt(ch[c]) ELSE Blank]]
    /\ speeds = [c \in Cols |-> SpeedMax]
    /\ lengths = [c \in Cols |-> LengthMax]
    /\ col = width
    /\ cursorHidden = hideCursor
    /\ termMode = CookedMode
    /\ nonblock = FALSE
    /\ oldt = CookedMode
    /\ oldf = FALSE
    /\ ttyQueue = 0
    /\ stdioBuf = 0
    /\ echoed = FALSE
    /\ frame = << >>
    /\ out = StartupOutput \o <<"frame">>
    /\ unpainted = 1
    /\ diag = FALSE
    /\ exitCode = -1
    /\ accessed = {}
    /\ lastStep = "none"

NextRender == Render

SpecRender == InitRender /\ [][NextRender]_vars

----------------------------------------------------------------------------
(* One update() on a grid of several columns. Every column starts in a     *)
(* state a running drop is in at the start of a tick: it advanced in the    *)
(* tick before to row d (or past the bottom by a whole trail, where the     *)
(* next advance respawns it), holds the first glyph in its lit cells, and   *)
(* moves every tick or every fourth tick.                                    *)

\* number of columns of the grids on which one update() is explored
NumColumns == 2

InitCols ==
    /\ pc = "fade"
    /\ ioctlOk = TRUE
    /\ width = NumColumns
    /\ height \in 1..MaxRenderHeight
    /\ \E d \in [Cols -> ((0 - 1)..(height - 1)) \cup {height + LengthMax}] :
         /\ drops = d
         /\ brightness = [r \in Rows |-> [c \in Cols |->
                             TrailBrightness(r, d[c], LengthMax, height)]]
         /\ screen = [r \in Rows |-> [c \in Cols |->
                             IF TrailBrightness(r, d[c], LengthMax, height) > 0
                             THEN CharAt(0) ELSE Blank]]
    /\ speeds \in [Cols -> {SpeedMin, SpeedMax}]
    /\ counters = [c \in Cols |-> 0]
    /\ elapsed = [c \in Cols |-> 0]
    /\ lengths = [c \in Cols |-> LengthMax]
    /\ col = 0
    /\ cursorHidden = hideCursor
    /\ termMode = CookedMode
    /\ nonblock = FALSE
    /\ oldt = CookedMode
    /\ oldf = FALSE
    /\ ttyQueue = 0
    /\ stdioBuf = 0
    /\ echoed = FALSE
    /\ frame = << >>
    /\ out = StartupOutput
    /\ unpainted = 0
    /\ diag = FALSE
    /\ exitCode = -1
    /\ accessed = {}
    /\ lastStep = "none"

NextCols == Fade \/ Rest \/ Advance

SpecCols == InitCols /\ [][NextCols]_vars

\* the grid and the per-column state that update() works on
GridState ==
    [screen |-> screen, brightness |-> brightness, drops |-> drops,
     speeds |-> speeds, lengths |-> lengths, counters |-> counters]

\* TickedCounter reading the counter of the first column for every column
TickedCounterFirstColumn(cnt, c) == cnt[0] + 1

\* line 176: counters[col]++
TickedCounter(cnt, c) == cnt[c] + 1

\* lines 175-205 as a function: the grid state after the body of the column
\* loop has run for column c on the grid state st; dr holds the values the
\* random distributions return in it (ch[r]: char_dist for the write to row r,
\* sp, sd, ln: spawn_dist, speed_dist, length_dist of a respawn)
StepColumn(st, c, dr) ==
    LET n == TickedCounter(st.counters, c)
        h == st.drops[c] + 1
        len == st.lengths[c]
    IN  IF ~ShouldAdvance(n, st.speeds[c])
        THEN [st EXCEPT !.counters[c] = n]
        ELSE [screen |-> [r \in Rows |-> [st.screen[r] EXCEPT ![c] =
                             DrawnGlyph(r, h, len, height, st.brightness[r][c],
                                        st.screen[r][c], dr.ch[r])]],
              brightness |-> [r \in Rows |-> [st.brightness[r] EXCEPT ![c] =
                             DrawnBrightness(r, h, len, height, st.brightness[r][c])]],
              drops |-> [st.drops EXCEPT ![c] =
                             IF ShouldRespawn(h, len, height)
                             THEN SpawnRow(dr.sp, len) ELSE h],
              speeds |-> [st.speeds EXCEPT ![c] =
                             IF ShouldRespawn(h, len, height) THEN dr.sd ELSE @],
              lengths |-> [st.lengths EXCEPT ![c] =
                             IF ShouldRespawn(h, len, height) THEN dr.ln ELSE @],
              counters |-> [st.counters EXCEPT ![c] = 0]]

----------------------------------------------------------------------------
(* Properties *)

\* an update() step of column col: Rest or Advance
ColumnStep == pc = "advance" /\ col' = col + 1

\* positions from the end of one update() to the start of the next
TickBoundary == pc \in {"render", "sleep", "kbhit", "getchar", "teardown"}

\* columns that exist in some explored terminal
ColIds == {w - 1 : w \in Widths \ {0}}

\* C1: in every reachable state (after initialization, after the fade pass,
\* after each column's advance) every cell's brightness is in 0..10.
C1_BrightnessInRange ==
    \A r \in Rows, c \in Cols : brightness[r][c] \in 0..MaxBrightness

\* a column advance has just written a head (10) above a faded cell
C1_Witness ==
    /\ pc = "render"
    /\ lastStep = "move"
    /\ \E r1 \in Rows, r2 \in Rows :
         /\ brightness[r1][0] = MaxBrightness
         /\ brightness[r2][0] \in 1..(MaxBrightness - 1)

\* C2: a column of speed s advances exactly on the s-th update() after its
\* previous advance (s being the speed in effect since then), by one row or
\* into a respawn; on the other s-1 ticks its headRow, speed and trailLength
\* are unchanged.
C2_SpeedPacing ==
    [][ColumnStep =>
          \/ /\ elapsed[col] + 1 = speeds[col]
             /\ \/ drops'[col] = drops[col] + 1
                \/ /\ (drops[col] + 1) - lengths[col] > height
                   /\ drops'[col] < 0
          \/ /\ elapsed[col] + 1 < speeds[col]
             /\ drops'[col] = drops[col]
             /\ speeds'[col] = speeds[col]
             /\ lengths'[col] = lengths[col]]_vars

\* a drop of the slowest speed has just moved inside the grid
C2_Witness ==
    /\ pc = "render"
    /\ lastStep = "move"
    /\ speeds[0] = SpeedMax
    /\ elapsed[0] = 0
    /\ drops[0] \in Rows

C3_Fresh(c) ==
    /\ drops[c] < 0
    /\ lengths[c] \in LengthMin..LengthMax
    /\ speeds[c] \in SpeedMin..SpeedMax

C3_State ==
    /\ pc = "run" => \A c \in Cols : C3_Fresh(c)
    /\ (lastStep = "respawn" /\ pc \in {"advance", "render"}) => C3_Fresh(col - 1)
    /\ TickBoundary => \A c \in Cols : drops[c] <= height + lengths[c]

C3_Step ==
    (ColumnStep /\ drops'[col] # drops[col]) =>
        /\ (drops'[col] # drops[col] + 1) <=> ((drops[col] + 1) - lengths[col] > height)
        /\ (drops'[col] # drops[col] + 1) =>
              /\ drops[col] + 1 = height + lengths[col] + 1
              /\ drops'[col] < 0

\* C3: after initialization and after every respawn headRow < 0, trailLength
\* is in 7..10 and speed in 1..4; a respawn happens in exactly the advance whose
\* incremented headRow exceeds height + trailLength (it is then height +
\* trailLength + 1); so at the end of every update() headRow <= height +
\* trailLength.
C3_Respawn == [](C3_State) /\ [][C3_Step]_vars

\* a column has just been respawned
C3_Witness ==
    /\ pc = "render"
    /\ lastStep = "respawn"
    /\ drops[0] < 0

\* C4: as long as update() keeps being called, every column of a terminal of
\* height >= 1 has its headRow in [0, height) again and again.
C4_Revisits ==
    \A c \in ColIds :
        ([]<>(pc = "fade")) => []<>((c \in Cols /\ height >= 1) => drops[c] \in Rows)

\* a drop has just moved to a row of the grid, with blank rows below it
C4_Witness ==
    /\ pc = "render"
    /\ lastStep = "move"
    /\ height >= 1
    /\ drops[0] \in Rows
    /\ \E r \in Rows : r > drops[0] /\ brightness[r][0] = 0

\* C5: in a column's advance a tail cell at offset i is written only when its
\* brightness is below 10 - i and is then set to max(1, 10 - i); no write of
\* the advance lowers a brightness, only the fade pass does.
C5_TailWrite ==
    [][/\ ColumnStep =>
            /\ \A r \in Rows : brightness'[r][col] >= brightness[r][col]
            /\ \A i \in 1..(lengths[col] - 1) :
                 LET t == (drops[col] + 1) - i
                 IN (/\ t \in Rows
                     /\ \/ brightness'[t][col] # brightness[t][col]
                        \/ screen'[t][col] # screen[t][col])
                    => /\ brightness[t][col] < MaxBrightness - i
                       /\ brightness'[t][col] = Max(1, MaxBrightness - i)
       /\ (\E r \in Rows, c \in Cols : brightness'[r][c] < brightness[r][c])
            => pc = "fade"]_vars

\* an advance has just written the tail cell one row above the head
C5_Witness ==
    /\ pc = "render"
    /\ lastStep = "move"
    /\ \E r \in Rows :
         /\ drops[0] - r \in 1..(lengths[0] - 1)
         /\ brightness[r][0] = MaxBrightness - (drops[0] - r)

\* C6: when the program has terminated, the cursor is visible and the
\* terminal's input mode is the one it started with.
C6_TerminalRestored ==
    pc = "done" => (~cursorHidden /\ termMode = CookedMode)

\* the program ended on a key press, after the cursor had been hidden
C6_Witness ==
    /\ pc = "done"
    /\ exitCode = 0
    /\ stdioBuf > 0

\* C7: when the terminal-size query fails, the animation loop is never
\* entered and the process ends with a diagnostic and exit code 1.
C7_FailureSurfaced ==
    ~ioctlOk =>
        /\ pc \notin (LoopPcs \cup {"teardown"})
        /\ pc = "done" => (exitCode = 1 /\ diag)

\* every cell of the grid has brightness 0
BlankGrid == \A r \in Rows, c \in Cols : brightness[r][c] = 0

\* C8: the frame of a blank grid is the cursor-home sequence followed by
\* width spaces per row for height rows, separated by height - 1 newlines,
\* with no other byte (no colour sequence).
C8_BlankFrame ==
    (pc = "sleep" /\ BlankGrid) =>
        /\ Len(frame) = 3 + width * height + (IF height > 0 THEN height - 1 ELSE 0)
        /\ SubSeq(frame, 1, 3) = <<27, 91, 72>>
        /\ \A k \in 4..Len(frame) : frame[k] \in {Blank, Newline}
        /\ \A r \in Rows : \A c \in Cols : frame[3 + r * (width + 1) + c + 1] = Blank
        /\ \A r \in 0..(height - 2) : frame[3 + r * (width + 1) + width + 1] = Newline

\* a blank grid of two rows and two columns has been rendered
C8_Witness ==
    /\ pc = "sleep"
    /\ BlankGrid
    /\ width = 2
    /\ height = 2

\* C10: every index update() and render() use on the glyph and brightness
\* buffers is a row in [0, height) and a column in [0, width).
C10_IndicesInBounds ==
    \A a \in accessed : a[1] \in Rows /\ a[2] \in Cols

\* a drop whose head is below the grid and whose tail starts above it has
\* just drawn the rows of its tail that are inside
C10_Witness ==
    /\ pc = "render"
    /\ lastStep = "move"
    /\ drops[0] >= height
    /\ drops[0] - (lengths[0] - 1) < 0
    /\ accessed # {}

\* the moves of the run loop: exit check (kbhit, getchar), tick (fade,
\* advance), paint (render), sleep
C11_Edges ==
    {<<"kbhit", "getchar">>, <<"getchar", "fade">>, <<"getchar", "teardown">>,
     <<"fade", "advance">>, <<"fade", "render">>, <<"advance", "render">>,
     <<"render", "sleep">>, <<"sleep", "kbhit">>}

C11_State ==
    /\ unpainted \in {0, 1}
    /\ pc \in {"advance", "render"} => unpainted = 1
    /\ pc \in {"kbhit", "getchar", "fade", "sleep", "teardown"} => unpainted = 0

C11_Step ==
    /\ (pc \in LoopPcs /\ pc' # pc) => <<pc, pc'>> \in C11_Edges
    /\ unpainted' = unpainted + 1 <=> (pc = "fade" /\ pc' # pc)
    /\ unpainted' = unpainted - 1 <=> (pc = "render" /\ pc' # pc)

\* C11: an iteration of the run loop is one tick, then one paint, then the
\* sleep, then the exit check; the exit check is made only when no tick is
\* unpainted, every tick is painted once and every paint follows one tick.
C11_LoopOrder == [](C11_State) /\ [][C11_Step]_vars

\* the exit check after the first complete iteration
C11_Witness ==
    /\ pc = "getchar"
    /\ out = StartupOutput \o <<"frame">>
    /\ unpainted = 0
    /\ width > 0

\* a key has been typed and not been used for the exit yet
KeyWaiting == pc \in LoopPcs /\ (ttyQueue > 0 \/ stdioBuf > 0)

\* the process has ended by the key-press path
EndedNormally == pc = "done" /\ exitCode = 0

\* C12: once a key has been pressed the program ends with exit code 0, and
\* then its output was, in order: screen cleared, cursor hidden, startup
\* banner, the frames of the loop (if any), cursor shown, colour reset,
\* screen cleared, shutdown banner last.
C12_KeyEndsRun ==
    /\ KeyWaiting ~> EndedNormally
    /\ [](EndedNormally =>
            \/ out = <<"clear", "hide", "banner", "show", "reset", "clear", "bye">>
            \/ out = <<"clear", "hide", "banner", "frame", "show", "reset", "clear", "bye">>)

\* the program has ended on a key press after painting frames
C12_Witness ==
    /\ EndedNormally
    /\ Len(out) = 8
    /\ echoed

\* C13: at every point of the animation loop the terminal is in non-echo,
\* non-canonical input mode, a pressed key is not echoed, and the check
\* leaves the key unread (it stays in the tty queue or in the push-back
\* slot of stdin).
C13_QuietPoll ==
    /\ pc \in LoopPcs => termMode \cap {"ICANON", "ECHO"} = {}
    /\ ~echoed
    /\ ttyQueue + stdioBuf <= 1
    /\ pc \in {"teardown", "done"} /\ exitCode = 0 => ttyQueue + stdioBuf = 1

\* positions at which no update() is in progress: after initialization and
\* from the end of one update() to the start of the next
BetweenTicks == pc \in {"run", "fade"} \/ TickBoundary

\* C14: at every tick boundary every column has 0 <= tickCounter < speed,
\* also at the end of a tick in which the column respawned with a new speed.
C14_CounterBelowSpeed ==
    BetweenTicks =>
        \A c \in Cols : 0 <= counters[c] /\ counters[c] < speeds[c]

\* the end of a tick in which the column respawned with the smallest speed
C14_Witness ==
    /\ pc = "render"
    /\ lastStep = "respawn"
    /\ speeds[0] = SpeedMin
    /\ counters[0] = 0

\* the characters of matrix_chars that one stored byte can hold whole: its
\* one-byte (ASCII) characters; a byte of 128 or more is a part of a
\* three-byte katakana character
WholeChars == {matrix_chars[i] : i \in {j \in 1..Len(matrix_chars) : matrix_chars[j] < 128}}

\* C15: every non-blank glyph in the grid is one complete character of the
\* symbol alphabet, never a fragment of a character.
C15_WholeGlyphs ==
    \A r \in Rows, c \in Cols :
        screen[r][c] # Blank => screen[r][c] \in WholeChars

\* the step that is the fade pass of update()
FadePass == pc = "fade" /\ pc' # pc

\* C16: the fade pass maps every cell by itself: brightness b > 0 becomes
\* max(0, b - 3), the glyph becomes blank exactly when the new brightness is
\* 0 and is otherwise kept; a cell of brightness 0 is left as it is.
C16_FadeCells ==
    [][FadePass =>
        \A r \in Rows, c \in Cols :
            IF brightness[r][c] > 0
            THEN /\ brightness'[r][c] = Max(0, brightness[r][c] - 3)
                 /\ brightness'[r][c] = 0 => screen'[r][c] = 32
                 /\ brightness'[r][c] > 0 => /\ screen'[r][c] = screen[r][c]
                                             /\ screen'[r][c] # 32
            ELSE /\ brightness'[r][c] = brightness[r][c]
                 /\ screen'[r][c] = screen[r][c]]_vars

\* just after a fade pass: the head cell, written three ticks ago, has faded
\* to 1 and keeps its glyph; the tail cell above it has just reached 0 (from
\* 3) and was cleared
C16_Witness ==
    /\ pc = "advance" /\ col = 0 /\ lastStep = "none"
    /\ \E r \in Rows \ {0} :
          /\ drops[0] = r
          /\ brightness[r][0] = 1 /\ screen[r][0] # Blank
          /\ brightness[r - 1][0] = 0 /\ screen[r - 1][0] = Blank

\* what the claim expects for the cell at row r, column c of the grid
C17_Cell(r, c) ==
    IF screen[r][c] # 32 /\ brightness[r][c] > 0
    THEN (IF brightness[r][c] > 5
          THEN <<27, 91, 57, 50, 109>>
          ELSE <<27, 91, 51, 50, 109>>)
         \o <<screen[r][c]>> \o <<27, 91, 48, 109>>
    ELSE <<32>>

RECURSIVE C17_RowFrom(_, _)
\* the cells of row r from column c on, left to right
C17_RowFrom(r, c) ==
    IF c >= width THEN << >> ELSE C17_Cell(r, c) \o C17_RowFrom(r, c + 1)

RECURSIVE C17_RowsFrom(_)
\* the rows from r on, top to bottom, a separator after each but the last
C17_RowsFrom(r) ==
    IF r >= height THEN << >>
    ELSE C17_RowFrom(r, 0) \o (IF r = height - 1 THEN << >> ELSE <<10>>)
         \o C17_RowsFrom(r + 1)

\* the number of separator bytes in a byte sequence
C17_Separators(bytes) == Cardinality({i \in 1..Len(bytes) : bytes[i] = 10})

\* C17: the frame render() has emitted is, after the cursor-home sequence,
\* one output cell per grid cell in row-major order: bright colour (brightness
\* > 5) or dim colour (1..5), the glyph and a colour reset for a lit cell, one
\* space for any other cell, and height - 1 row separators, none after the
\* last row.
C17_FrameLayout ==
    pc = "sleep" =>
        /\ frame = <<27, 91, 72>> \o C17_RowsFrom(0)
        /\ C17_Separators(frame) = (IF height > 0 THEN height - 1 ELSE 0)

\* a painted frame of two rows and two columns with a bright cell, a dim cell
\* at the threshold brightness and a dark cell
C17_Witness ==
    /\ pc = "sleep"
    /\ width = 2 /\ height = 2
    /\ \E r \in Rows, c \in Cols : brightness[r][c] = 5 /\ screen[r][c] # Blank
    /\ \E r \in Rows, c \in Cols : brightness[r][c] > 5 /\ screen[r][c] # Blank
    /\ \E r \in Rows, c \in Cols : brightness[r][c] = 0
    /\ Len(frame) > 3 + 2 * 2

\* the values the distributions returned in the column step now being taken,
\* read off the state it leads to
C18_StepDraws ==
    [ch |-> [r \in Rows |->
                IF \E i \in CharDraws : CharAt(i) = screen'[r][col]
                THEN CHOOSE i \in CharDraws : CharAt(i) = screen'[r][col]
                ELSE 0],
     sp |-> (0 - drops'[col]) - lengths[col],
     sd |-> speeds'[col],
     ln |-> lengths'[col]]

\* two different outcomes of the draws of one column step
C18_Draws ==
    {[ch |-> [r \in Rows |-> 0], sp |-> 0, sd |-> SpeedMin, ln |-> LengthMin],
     [ch |-> [r \in Rows |-> CharStep], sp |-> MaxSpawn, sd |-> SpeedMax, ln |-> LengthMax]}

\* the orders in which the columns can be processed
C18_Orders ==
    {o \in [1..width -> Cols] : \A i, j \in 1..width : o[i] = o[j] => i = j}

RECURSIVE C18_Run(_, _, _, _)
\* the grid state after the columns o[i], o[i+1], ... have been processed in
\* that order, column c with the draws dr[c]
C18_Run(st, o, i, dr) ==
    IF i > Len(o) THEN st ELSE C18_Run(StepColumn(st, o[i], dr[o[i]]), o, i + 1, dr)

\* what a grid state holds for column c
C18_Column(st, c) ==
    [screen |-> [r \in Rows |-> st.screen[r][c]],
     brightness |-> [r \in Rows |-> st.brightness[r][c]],
     drops |-> st.drops[c], speeds |-> st.speeds[c],
     lengths |-> st.lengths[c], counters |-> st.counters[c]]

\* the grid state st with every column but c replaced by a blank column whose
\* drop is about to advance
C18_OthersReplaced(st, c) ==
    [screen |-> [r \in Rows |-> [x \in Cols |-> IF x = c THEN st.screen[r][x] ELSE 32]],
     brightness |-> [r \in Rows |-> [x \in Cols |-> IF x = c THEN st.brightness[r][x] ELSE 0]],
     drops |-> [x \in Cols |-> IF x = c THEN st.drops[x] ELSE 0],
     speeds |-> [x \in Cols |-> IF x = c THEN st.speeds[x] ELSE 1],
     lengths |-> [x \in Cols |-> IF x = c THEN st.lengths[x] ELSE 7],
     counters |-> [x \in Cols |-> IF x = c THEN st.counters[x] ELSE 0]]

\* at the start of the column loop: every processing order gives the same
\* grid and column states, and the step of a column gives that column the
\* same result whatever the other columns hold
C18_State ==
    (pc = "advance" /\ col = 0) =>
        \A dr \in [Cols -> C18_Draws] :
            /\ \A o \in C18_Orders :
                  C18_Run(GridState, o, 1, dr) = C18_Run(GridState, [i \in 1..width |-> i - 1], 1, dr)
            /\ \A c \in Cols :
                  C18_Column(StepColumn(GridState, c, dr[c]), c)
                      = C18_Column(StepColumn(C18_OthersReplaced(GridState, c), c, dr[c]), c)

\* a column step is the function StepColumn of the column being processed, it
\* touches cells of that column only and leaves every other column as it was
C18_Step ==
    ColumnStep =>
        /\ \E st \in {GridState}, dr \in {C18_StepDraws} :
              [screen |-> screen', brightness |-> brightness', drops |-> drops',
               speeds |-> speeds', lengths |-> lengths', counters |-> counters']
                 = StepColumn(st, col, dr)
        /\ \A cell \in accessed' : cell[2] = col
        /\ \A c \in Cols \ {col} :
              /\ drops'[c] = drops[c] /\ speeds'[c] = speeds[c]
              /\ lengths'[c] = lengths[c] /\ counters'[c] = counters[c]
              /\ \A r \in Rows : /\ screen'[r][c] = screen[r][c]
                                 /\ brightness'[r][c] = brightness[r][c]

\* C18: the per-column advance of column c reads and writes only the cells
\* and the state of column c, so that, with each column's random draws held
\* fixed, processing the columns in any order within one update() yields the
\* same grid and the same column states.
C18_ColumnsIndependent == [](C18_State) /\ [][C18_Step]_vars

\* the end of an update() in which the first column moved its head to a row
\* of the grid and the last column respawned
C18_Witness ==
    /\ pc = "render" /\ width = NumColumns
    /\ lastStep = "respawn" /\ drops[width - 1] < 0
    /\ counters[0] = 0 /\ drops[0] \in Rows
    /\ brightness[drops[0]][0] = 10

\* C19: immediately after a column has advanced, a head cell inside the grid
\* has brightness 10, and every tail cell inside the grid, at offset i with
\* 1 <= i < trailLength above the new headRow, has brightness at least 10 - i
\* and a non-blank glyph.
C19_TrailAfterAdvance ==
    (pc \in {"advance", "render"} /\ col > 0 /\ lastStep \in {"move", "respawn"}) =>
        LET c == col - 1
            h == drops[c]
        IN  /\ h \in Rows => brightness[h][c] = 10
            /\ \A i \in 1..(lengths[c] - 1) :
                  (h - i) \in Rows => /\ brightness[h - i][c] >= 10 - i
                                       /\ screen[h - i][c] # 32

\* a drop has just advanced to the third row, over two tail cells
C19_Witness ==
    /\ pc = "render" /\ col = 1 /\ lastStep = "move"
    /\ drops[0] = 2 /\ height = 3
    /\ brightness[2][0] = 10
    /\ brightness[1][0] = 9 /\ screen[1][0] # Blank
    /\ brightness[0][0] = 8 /\ screen[0][0] # Blank

\* C20: at every tick boundary a cell's glyph is blank if and only if its
\* brightness is 0 (no glyph of the alphabet is the blank), so the two tests
\* of render(), glyph non-blank and brightness > 0, agree on every cell.
C20_BlankIffDark ==
    /\ \A i \in 1..Len(matrix_chars) : matrix_chars[i] # 32
    /\ BetweenTicks =>
          \A r \in Rows, c \in Cols :
              /\ screen[r][c] = 32 <=> brightness[r][c] = 0
              /\ screen[r][c] # 32 <=> brightness[r][c] > 0

\* a frame has been painted in a tick in which the drop rested: its head cell
\* is still lit with a glyph, the tail cell above it has gone dark and blank
C20_Witness ==
    /\ pc = "sleep" /\ lastStep = "rest"
    /\ \E r \in Rows \ {0} :
          /\ drops[0] = r
          /\ brightness[r][0] > 0 /\ screen[r][0] # Blank
          /\ brightness[r - 1][0] = 0 /\ screen[r - 1][0] = Blank

====
